---- MODULE Spec2Model ----
(***************************************************************************)
(* A model of the download engine of final-dl-manager: File2Dl (task       *)
(* construction, the streamed transfer loop single_thread_dl, recovery by  *)
(* File2Dl::from), the file namer generate_name_on_disk, the URL prober    *)
(* Url::new, and the collaborator operations of menu_bar.rs and main.rs    *)
(* that write the shared fields or the download directory.                 *)
(*                                                                         *)
(* File names are sequences of one-character strings, so that the          *)
(* stem/extension split and the "{name}_{idx}.{ext}" formatting are        *)
(* computed, not assumed.  A payload file's content is the sequence of the *)
(* remote byte positions (1-based) that were appended to it.               *)
(*                                                                         *)
(* Environment: a server answers a request carrying a Range header with    *)
(* the inclusive byte range asked for, cut at the end of the resource (an  *)
(* empty body when the range starts at or after the end), and a request    *)
(* without one with the whole resource; a failed write_all writes nothing. *)
(***************************************************************************)
EXTENDS Integers, Sequences, FiniteSets, TLC

VARIABLES
    files,      \* DownloadManager.files: the tasks, with each task's loop state
    disk,       \* payload files of the download directory: name -> content
    meta,       \* sidecar metadata files of the directory: file name -> record
    restarts,   \* number of process starts after the first
    namer,      \* the calls of generate_name_on_disk: input, directory and result
    dl_dir,     \* whether the download directory exists
    probe,      \* the last call of Url::new: the requests it sent and what it found
    toggle      \* the calls of toggle_status under way: caller -> what it has loaded

vars == <<files, disk, meta, restarts, namer, dl_dir, probe, toggle>>

\* ------------------------------------------------------------------ bounds

MaxLen == 2         \* longest remote resource, in bytes
MaxChunk == 2       \* largest chunk the response stream yields
MaxFiles == 2       \* tasks created by File2Dl::new in one process run
MaxRestarts == 1    \* process restarts
MaxRuns == 2        \* runs of single_thread_dl on one task value
MaxSpeed == 1       \* largest speed limit the collaborator sets
MaxNames == 3       \* calls of the file namer in the namer specification
MaxLimit == 2       \* largest speed limit in the rate-limit specification
MaxCallers == 2     \* concurrent callers of toggle_status

\* ------------------------------------------------------------------ names

Digits == <<"0", "1", "2", "3", "4", "5", "6", "7", "8", "9">>

RECURSIVE ToDec(_)
\* format!("{idx}"): the decimal digits of idx
ToDec(n) == IF n < 10 THEN <<Digits[n + 1]>> ELSE ToDec(n \div 10) \o <<Digits[(n % 10) + 1]>>

RECURSIVE LastDot(_)
\* position of the last '.' of s, 0 when there is none
LastDot(s) == IF s = <<>> THEN 0 ELSE IF s[Len(s)] = "." THEN Len(s) ELSE LastDot(SubSeq(s, 1, Len(s) - 1))

\* Path::file_stem().unwrap_or_default(): the part before the last '.', the whole
\* name when it has no '.' or only a leading one
file_stem(s) == IF LastDot(s) <= 1 THEN s ELSE SubSeq(s, 1, LastDot(s) - 1)

\* Path::extension().unwrap_or_default(): the part after the last '.', empty when
\* the name has no '.' or only a leading one
extension(s) == IF LastDot(s) <= 1 THEN <<>> ELSE SubSeq(s, LastDot(s) + 1, Len(s))

\* format!("{name}_{idx}.{ext}")
FormatName(name, idx, ext) == name \o <<"_">> \o ToDec(idx) \o <<".">> \o ext

\* path.join(&init).exists(): joining the empty name gives the directory itself
Exists(init, dir) == init = <<>> \/ init \in dir

RECURSIVE NameLoop(_, _, _, _, _)
NameLoop(name, ext, init, idx, dir) ==
    IF Exists(init, dir) THEN NameLoop(name, ext, FormatName(name, idx, ext), idx + 1, dir) ELSE init

\* the namer counting from 0
generate_name_from_zero(init, dir) == NameLoop(file_stem(init), extension(init), init, 0, dir)

generate_name_on_disk(init, dir) == NameLoop(file_stem(init), extension(init), init, 1, dir)

\* ------------------------------------------------------------------ files

\* str::ends_with
ends_with(s, suffix) ==
    Len(s) >= Len(suffix) /\ SubSeq(s, Len(s) - Len(suffix) + 1, Len(s)) = suffix

\* the extension get_metadata_files knows a sidecar by
MetaExt == <<".", "m", "e", "t", "a", "d", "l">>

\* the file init_metadata writes the record of the payload file name to
SidecarName(name) == <<".">> \o name \o MetaExt

\* format!(".{}.metadata", name_on_disk): the path remove_selected_from_disk
\* takes for the sidecar
tmp_path(name) == <<".">> \o name \o <<".", "m", "e", "t", "a", "d", "a", "t", "a">>

\* a directory listing without the files K
RemoveFiles(d, K) == [n \in (DOMAIN d) \ K |-> d[n]]

FileNames == DOMAIN disk

FileSize(name) == Len(disk[name])

Append2File(d, name, bytes) ==
    IF name \in DOMAIN d THEN [d EXCEPT ![name] = @ \o bytes] ELSE (name :> bytes) @@ d

\* ----------------------------------------------------------------- server

BaseName == <<"f", ".", "b">>

AcceptValues == {"bytes", "none", "absent"}

\* The remote resources: len bytes long (a link is known by its resource), with
\* the accept-ranges header the server sends on the probe ("absent": none), and
\* the name the last path segment of the link gives (empty: none that matches
\* FILENAME_RE)
Servers == [len : 1..MaxLen, accept : AcceptValues, urlName : {BaseName}]

\* the positions a..b as a sequence, empty when b < a
Interval(a, b) == IF b < a THEN <<>> ELSE [i \in 1..(b - a + 1) |-> a + i - 1]

Min(a, b) == IF a <= b THEN a ELSE b

\* body of a GET of a link with "Range: bytes=<start>-<end>" (0-based, inclusive)
RangeBody(link, start, end) == Interval(start + 1, Min(end + 1, link.len))

\* body of a GET of a link without a Range header
FullBody(link) == Interval(1, link.len)

\* ------------------------------------------------------------- URL prober

\* a call of Url::new: whether the link matches URL_RE, whether the HEAD request
\* and the ranged GET are answered, and the resource behind the link (no request
\* follows an invalid link, none a HEAD request that failed)
Probes ==
    {p \in [valid : BOOLEAN, head : BOOLEAN, manual : BOOLEAN, srv : Servers] :
        (p.head => p.valid) /\ (p.manual => p.head)}

\* the body the ranged GET "Range: bytes=0-1" is answered with
ManualBody(p) == RangeBody(p.srv, 0, 1)

\* manual_range_test: the request was answered and its body has length 1
manual_range_test(p) == p.manual /\ Len(ManualBody(p)) = 1

\* ParseHeaders::accept_ranges: Some(value == "bytes") when the header is there
accept_ranges(srv) == [some |-> srv.accept # "absent", val |-> srv.accept = "bytes"]

\* Url::default()
NoUrl == [link |-> [len |-> 0], filename |-> <<>>, content_length |-> 0, range_support |-> FALSE]

\* Option::unwrap_or(default)
unwrap_or(opt, default) == IF opt.some THEN opt.val ELSE default

\* Url::new: validate the link, send the HEAD request, read the headers; the
\* argument of unwrap_or is evaluated before the call, so the ranged GET of
\* manual_range_test is sent whatever the headers say
Url_new(p) ==
    IF ~p.valid THEN [ok |-> FALSE, sent |-> <<>>, url |-> NoUrl]
    ELSE IF ~p.head THEN [ok |-> FALSE, sent |-> <<"head">>, url |-> NoUrl]
    ELSE [ok |-> TRUE,
          sent |-> <<"head", "manual">>,
          url |-> [link |-> [len |-> p.srv.len],
                   filename |-> p.srv.urlName,
                   content_length |-> p.srv.len,
                   range_support |-> unwrap_or(accept_ranges(p.srv), manual_range_test(p))]]

\* the Url of a link whose requests are all answered
UrlNew(srv) == Url_new([valid |-> TRUE, head |-> TRUE, manual |-> TRUE, srv |-> srv]).url

\* no call of Url::new yet
NoProbe ==
    [called |-> FALSE, ok |-> FALSE, sent |-> <<>>, accept |-> "absent",
     manual_ok |-> FALSE, manual_len |-> 0, range_support |-> FALSE]

\* what a call of Url::new sent, saw and returned: the accept-ranges header of
\* the HEAD response, whether the ranged GET was answered and with how many bytes
Probed(p, u) ==
    [called |-> TRUE, ok |-> u.ok, sent |-> u.sent,
     accept |-> IF u.ok THEN p.srv.accept ELSE "absent",
     manual_ok |-> u.ok /\ p.manual,
     manual_len |-> IF u.ok /\ p.manual THEN Len(ManualBody(p)) ELSE 0,
     range_support |-> u.url.range_support]

\* ------------------------------------------------------------------ tasks

NoChunk == [ok |-> TRUE, bytes |-> <<>>]

\* no transfer request
NoReq == [sent |-> FALSE, range |-> FALSE, start |-> 0, end |-> 0]

\* File2Dl::new's value, with the loop's locals (pc, req: the transfer request
\* of this run, stream, chunk,
\* accumulated_bytes, elapsed: whether a second has passed since start_time) and
\* five history fields: recovered/stored, the sidecar the task was rebuilt from;
\* runs, the runs of the loop started on it; prev, how the run before this one ended; failed, whether the stream of this
\* run yielded a failure; base, the payload file as this run found it
FreshTask(url, name) ==
    [url |-> url, name_on_disk |-> name, speed |-> 0, size_on_disk |-> 0,
     bytes_per_sec |-> 0, running |-> FALSE, complete |-> FALSE,
     pc |-> "idle", req |-> NoReq, stream |-> <<>>, chunk |-> NoChunk, accumulated_bytes |-> 0, elapsed |-> 0,
     recovered |-> FALSE, stored |-> <<>>, runs |-> 0, prev |-> "idle", failed |-> FALSE, base |-> <<>>]

Tasks == 1..Len(files)

Active(i) == files[i].pc \notin {"idle", "done", "err"}

\* File2Dl::new creating the directory before it probes the link
NewTask_dir_first ==
    /\ Len(files) < MaxFiles
    /\ \E p \in Probes :
         LET u == Url_new(p)
         IN /\ probe' = Probed(p, u)
            /\ dl_dir' = TRUE
            /\ IF u.ok
               THEN files' = Append(files, FreshTask(u.url, generate_name_on_disk(u.url.filename, FileNames)))
               ELSE files' = files
    /\ UNCHANGED <<disk, meta, restarts, namer, toggle>>

\* File2Dl::new: probe the link (an error returns at once), create the directory
\* when it is not there (mk: whether create_dir, if called, succeeds), resolve a
\* free name; all counters zero. The task is added to the list.
NewTask ==
    /\ Len(files) < MaxFiles
    /\ \E p \in Probes : \E mk \in {TRUE} \cup {dl_dir} :
         LET u == Url_new(p)
         IN /\ probe' = Probed(p, u)
            /\ IF u.ok /\ (dl_dir \/ mk)
               THEN /\ dl_dir' = TRUE
                    /\ files' = Append(files, FreshTask(u.url, generate_name_on_disk(u.url.filename, FileNames)))
               ELSE UNCHANGED <<files, dl_dir>>
    /\ UNCHANGED <<disk, meta, restarts, namer, toggle>>

\* ---------------------------------------------------------- toggle_status

Callers == 1..MaxCallers

\* a caller that is not inside toggle_status
IdleCall == [loading |-> FALSE, task |-> 0, status |-> FALSE, hit |-> "none"]

\* no call of toggle_status under way
NoToggle == [c \in Callers |-> IdleCall]

\* A call that has loaded running notes what was stored into running since:
\* nothing, one store of a constant ("store": Pause all, Resume all, the loop's
\* completion store), the store of one other call that had loaded the same value
\* ("toggle"), or more than that ("many")
Hit(call, kind) == [call EXCEPT !.hit = IF call.hit = "none" THEN kind ELSE "many"]

\* a constant was stored into running of the tasks T
StoreHits(T) ==
    [c \in Callers |-> IF toggle[c].loading /\ toggle[c].task \in T THEN Hit(toggle[c], "store") ELSE toggle[c]]

\* ---------------------------------------------------------- transfer loop

\* init_res building its request without a Range header
init_req_without_range(f) == [sent |-> TRUE, range |-> FALSE, start |-> 0, end |-> 0]

\* init_res, lines 175-189: the GET it builds, with the header
\* "Range: bytes=<size_on_disk>-<content_length>" under range support
init_req(f) ==
    IF f.url.range_support
    THEN [sent |-> TRUE, range |-> TRUE, start |-> f.size_on_disk, end |-> f.url.content_length]
    ELSE [sent |-> TRUE, range |-> FALSE, start |-> 0, end |-> 0]

\* the body a link's server answers a request with
Answer(link, req) == IF req.range THEN RangeBody(link, req.start, req.end) ELSE FullBody(link)

\* init_res asking for the whole resource whatever is on disk
init_res_from_zero(f) == FullBody(f.url.link)

\* init_res: the body the transfer request is answered with
init_res(f) == Answer(f.url.link, init_req(f))

\* init_metadata: the record persisted for a task
MetaData(f) ==
    [link |-> f.url.link, url_name |-> f.url.filename, name_on_disk |-> f.name_on_disk,
     content_length |-> f.url.content_length, range_support |-> f.url.range_support,
     speed |-> f.speed]

Fail(f) == [f EXCEPT !.pc = "err"]

\* single_thread_dl, lines 62-63: build the client, send the request
StartLoop(i) ==
    /\ ~Active(i)
    /\ files[i].runs < MaxRuns
    /\ \E ok \in BOOLEAN :
         LET f == [files[i] EXCEPT !.prev = files[i].pc, !.runs = @ + 1, !.failed = FALSE, !.base = <<>>,
                                   !.chunk = NoChunk, !.accumulated_bytes = 0, !.elapsed = 0]
         IN files' = [files EXCEPT ![i] =
                IF ok THEN [f EXCEPT !.pc = "meta", !.req = init_req(f), !.stream = init_res(f)]
                ELSE [f EXCEPT !.pc = "err", !.req = NoReq, !.stream = <<>>]]
    /\ UNCHANGED <<disk, meta, restarts, namer, dl_dir, probe, toggle>>

\* line 64: persist the metadata record
Metadata(i) ==
    /\ files[i].pc = "meta"
    /\ \E ok \in BOOLEAN :
         IF ok
         THEN /\ meta' = (SidecarName(files[i].name_on_disk) :> MetaData(files[i])) @@ meta
              /\ files' = [files EXCEPT ![i].pc = "open"]
         ELSE /\ meta' = meta
              /\ files' = [files EXCEPT ![i] = Fail(@)]
    /\ UNCHANGED <<disk, restarts, namer, dl_dir, probe, toggle>>

\* lines 65-74: open the output file for append, creating it; start the window
Open(i) ==
    /\ files[i].pc = "open"
    /\ \E ok \in BOOLEAN :
         IF ok
         THEN /\ disk' = Append2File(disk, files[i].name_on_disk, <<>>)
              /\ files' = [files EXCEPT ![i].pc = "pull", ![i].base = disk'[files[i].name_on_disk],
                                        ![i].accumulated_bytes = 0, ![i].elapsed = 0]
         ELSE /\ disk' = disk
              /\ files' = [files EXCEPT ![i] = Fail(@)]
    /\ UNCHANGED <<meta, restarts, namer, dl_dir, probe, toggle>>

\* lines 105-108: the stream is exhausted
Finish(f) == [f EXCEPT !.complete = TRUE, !.running = FALSE, !.bytes_per_sec = 0, !.pc = "done"]

\* the loop writing the item it pulled without a look at running
Pull_unsampled(i) ==
    /\ files[i].pc = "pull"
    /\ files[i].stream # <<>>
    /\ \E c \in 1..Min(MaxChunk, Len(files[i].stream)) :
         files' = [files EXCEPT ![i].pc = "write",
                                ![i].chunk = [ok |-> TRUE, bytes |-> SubSeq(files[i].stream, 1, c)],
                                ![i].stream = SubSeq(files[i].stream, c + 1, Len(files[i].stream))]
    /\ UNCHANGED <<disk, meta, restarts, namer, dl_dir, probe, toggle>>

\* line 76: stream.next().await: the end of the stream, a chunk, or a failure
Pull(i) ==
    /\ files[i].pc = "pull"
    /\ toggle' = IF files[i].stream = <<>> THEN StoreHits({i}) ELSE toggle
    /\ IF files[i].stream = <<>>
       THEN files' = [files EXCEPT ![i] = Finish(@)]
       ELSE \/ \E c \in 1..Min(MaxChunk, Len(files[i].stream)) :
                 files' = [files EXCEPT ![i].pc = "sample",
                                        ![i].chunk = [ok |-> TRUE, bytes |-> SubSeq(files[i].stream, 1, c)],
                                        ![i].stream = SubSeq(files[i].stream, c + 1, Len(files[i].stream))]
            \/ files' = [files EXCEPT ![i].pc = "sample", ![i].failed = TRUE,
                                      ![i].chunk = [ok |-> FALSE, bytes |-> <<>>],
                                      ![i].stream = <<>>]
    /\ UNCHANGED <<disk, meta, restarts, namer, dl_dir, probe>>

\* the pause branch leaving the item it pulled at the head of the stream
Sampled_keeping_item(f, running) ==
    IF ~running
    THEN [f EXCEPT !.bytes_per_sec = 0, !.chunk = NoChunk, !.pc = "paused",
                   !.stream = IF f.chunk.ok THEN f.chunk.bytes \o f.stream ELSE f.stream]
    ELSE IF ~f.chunk.ok THEN [f EXCEPT !.chunk = NoChunk, !.pc = "err"]
    ELSE [f EXCEPT !.pc = "write"]

\* lines 77-83 for a sampled value of running: paused, drop the item and sleep;
\* else unpack it, returning its failure
Sampled(f, running) ==
    IF ~running
    THEN [f EXCEPT !.bytes_per_sec = 0, !.chunk = NoChunk, !.pc = "paused"]
    ELSE IF ~f.chunk.ok THEN [f EXCEPT !.chunk = NoChunk, !.pc = "err"]
    ELSE [f EXCEPT !.pc = "write"]

\* the loop without its pause branch
Sample_ignoring_running(i) ==
    /\ files[i].pc = "sample"
    /\ files' = [files EXCEPT ![i] = Sampled(@, TRUE)]
    /\ UNCHANGED <<disk, meta, restarts, namer, dl_dir, probe, toggle>>

\* lines 77-83: sample running once, after the item was pulled
Sample(i) ==
    /\ files[i].pc = "sample"
    /\ files' = [files EXCEPT ![i] = Sampled(@, files[i].running)]
    /\ UNCHANGED <<disk, meta, restarts, namer, dl_dir, probe, toggle>>

\* lines 79-80: the 2 second poll sleep is over
PauseWake(i) ==
    /\ files[i].pc = "paused"
    /\ files' = [files EXCEPT ![i].pc = "pull", ![i].elapsed = 1]
    /\ UNCHANGED <<disk, meta, restarts, namer, dl_dir, probe, toggle>>

\* the window published without zeroing the accumulator
Window_keeping_accumulator(f) ==
    IF f.elapsed >= 1
    THEN [f EXCEPT !.bytes_per_sec = f.accumulated_bytes, !.elapsed = 0]
    ELSE f

\* lines 88-92: publish the window when a second has passed
Window(f) ==
    IF f.elapsed >= 1
    THEN [f EXCEPT !.bytes_per_sec = f.accumulated_bytes, !.accumulated_bytes = 0, !.elapsed = 0]
    ELSE f

\* the loop without its rate limit
Limit_off(f) == [f EXCEPT !.pc = "pull"]

\* lines 94-102: over the limit, sleep out the window (pc "throttle") or reset at once
Limit(f) ==
    IF f.speed > 0 /\ f.accumulated_bytes >= f.speed
    THEN IF f.elapsed < 1 THEN [f EXCEPT !.pc = "throttle"]
         ELSE [f EXCEPT !.accumulated_bytes = 0, !.elapsed = 0, !.pc = "pull"]
    ELSE [f EXCEPT !.pc = "pull"]

\* lines 85-86: count the chunk
Count(f) ==
    [f EXCEPT !.size_on_disk = @ + Len(f.chunk.bytes),
              !.accumulated_bytes = @ + Len(f.chunk.bytes), !.chunk = NoChunk]

\* the loop persisting the metadata record with every chunk it writes
Write_persisting(i) ==
    /\ files[i].pc = "write"
    /\ disk' = Append2File(disk, files[i].name_on_disk, files[i].chunk.bytes)
    /\ files' = [files EXCEPT ![i] = Limit(Window(Count(@)))]
    /\ meta' = (SidecarName(files[i].name_on_disk) :> MetaData(files'[i])) @@ meta
    /\ UNCHANGED <<restarts, namer, dl_dir, probe, toggle>>

\* lines 84-102: write the chunk, count it, publish the window, apply the limit
Write(i) ==
    /\ files[i].pc = "write"
    /\ \E ok \in BOOLEAN :
         IF ok
         THEN /\ disk' = Append2File(disk, files[i].name_on_disk, files[i].chunk.bytes)
              /\ files' = [files EXCEPT ![i] = Limit(Window(Count(@)))]
         ELSE /\ disk' = disk
              /\ files' = [files EXCEPT ![i] = [@ EXCEPT !.chunk = NoChunk, !.pc = "err"]]
    /\ UNCHANGED <<meta, restarts, namer, dl_dir, probe, toggle>>

\* lines 98-101: the throttle sleep is over; reset the accumulator and the clock
ThrottleWake(i) ==
    /\ files[i].pc = "throttle"
    /\ files' = [files EXCEPT ![i].accumulated_bytes = 0, ![i].elapsed = 0, ![i].pc = "pull"]
    /\ UNCHANGED <<disk, meta, restarts, namer, dl_dir, probe, toggle>>

\* a second passes since start_time while the chunk is awaited or written
Tick(i) ==
    /\ files[i].pc = "write"
    /\ files[i].elapsed = 0
    /\ files' = [files EXCEPT ![i].elapsed = 1]
    /\ UNCHANGED <<disk, meta, restarts, namer, dl_dir, probe, toggle>>

\* ----------------------------------------------------- external writers

\* menu_bar.rs "Resume all": running.store(true) on every task
ResumeAll ==
    /\ files # <<>>
    /\ files' = [i \in Tasks |-> [files[i] EXCEPT !.running = TRUE]]
    /\ toggle' = StoreHits(Tasks)
    /\ UNCHANGED <<disk, meta, restarts, namer, dl_dir, probe>>

\* menu_bar.rs "Pause all": running.store(false) on every task
PauseAll ==
    /\ files # <<>>
    /\ files' = [i \in Tasks |-> [files[i] EXCEPT !.running = FALSE]]
    /\ toggle' = StoreHits(Tasks)
    /\ UNCHANGED <<disk, meta, restarts, namer, dl_dir, probe>>

\* toggle_status, line 57: let status = self.running.load(Relaxed)
ToggleLoad(c, i) ==
    /\ ~toggle[c].loading
    /\ toggle' = [toggle EXCEPT ![c] = [loading |-> TRUE, task |-> i, status |-> files[i].running, hit |-> "none"]]
    /\ UNCHANGED <<files, disk, meta, restarts, namer, dl_dir, probe>>

\* toggle_status as one atomic negation of running
ToggleStore_atomic(c) ==
    /\ toggle[c].loading
    /\ files' = [files EXCEPT ![toggle[c].task].running = ~files[toggle[c].task].running]
    /\ toggle' = [d \in Callers |-> IF d = c THEN IdleCall ELSE toggle[d]]
    /\ UNCHANGED <<disk, meta, restarts, namer, dl_dir, probe>>

\* toggle_status, line 58: self.running.store(!status, Relaxed)
ToggleStore(c) ==
    /\ toggle[c].loading
    /\ files' = [files EXCEPT ![toggle[c].task].running = ~toggle[c].status]
    /\ toggle' = [d \in Callers |->
                    IF d = c THEN IdleCall
                    ELSE IF toggle[d].loading /\ toggle[d].task = toggle[c].task
                         THEN Hit(toggle[d], IF toggle[d].status = toggle[c].status THEN "toggle" ELSE "many")
                         ELSE toggle[d]]
    /\ UNCHANGED <<disk, meta, restarts, namer, dl_dir, probe>>

\* the collaborator stores a speed limit (0: unlimited) into the shared field
SetSpeed(i) ==
    /\ \E v \in 0..MaxSpeed :
         /\ v # files[i].speed
         /\ files' = [files EXCEPT ![i].speed = v]
    /\ UNCHANGED <<disk, meta, restarts, namer, dl_dir, probe, toggle>>

\* --------------------------------------------------------------- recovery

\* get_metadata_files: the files of the directory whose name ends with ".metadl"
get_metadata_files == {k \in DOMAIN meta : ends_with(k, MetaExt)}

\* read_dir fails when the directory is not there
ReadDirOk == dl_dir

\* get_file_size: Err when the file is not there
get_file_size(name) == [ok |-> name \in FileNames, size |-> IF name \in FileNames THEN FileSize(name) ELSE 0]

\* File2Dl::from, lines 125-150: the task value of a record, for the size and
\* the name found for it
Rebuilt(entry, size_on_disk, name_on_disk) ==
    LET m_data == meta[entry]
        url == [link |-> m_data.link, filename |-> m_data.url_name,
                content_length |-> m_data.content_length, range_support |-> m_data.range_support]
    IN [FreshTask(url, name_on_disk) EXCEPT
          !.speed = m_data.speed, !.size_on_disk = size_on_disk,
          !.complete = (size_on_disk = m_data.content_length),
          !.recovered = TRUE, !.stored = entry]

\* lines 132-138: the stored name with range support, else a new one
RebuiltName(m_data) ==
    IF m_data.range_support THEN m_data.name_on_disk
    ELSE generate_name_on_disk(m_data.name_on_disk, FileNames)

\* the closure taking the file for empty instead of reading its size
FromEntry_without_stat(entry) == Rebuilt(entry, 0, RebuiltName(meta[entry]))

\* the closure reusing the stored name whatever the range support
FromEntry_keeping_name(entry) ==
    Rebuilt(entry, get_file_size(meta[entry].name_on_disk).size, meta[entry].name_on_disk)

\* File2Dl::from's closure: the task of one sidecar record
FromEntry(entry) ==
    Rebuilt(entry, get_file_size(meta[entry].name_on_disk).size, RebuiltName(meta[entry]))

\* whether the closure returns Ok for the record
EntryOk(entry) == get_file_size(meta[entry].name_on_disk).ok

\* a set as a sequence, in the order the directory is read
SetToSeq(S) == CHOOSE s \in [1..Cardinality(S) -> S] : \A a, b \in 1..Cardinality(S) : s[a] = s[b] => a = b

\* File2Dl::from: collect() gives the first Err, or every task
FromDir ==
    IF ReadDirOk /\ \A e \in get_metadata_files : EntryOk(e)
    THEN [ok |-> TRUE, tasks |-> [k \in 1..Cardinality(get_metadata_files) |-> FromEntry(SetToSeq(get_metadata_files)[k])]]
    ELSE [ok |-> FALSE, tasks |-> <<>>]

\* DownloadManager::load_files under unwrap_or_default
load_files == IF FromDir.ok THEN FromDir.tasks ELSE <<>>

\* Subseq(s, K): the elements of s at the positions of K, in order
RECURSIVE Retain(_, _)
Retain(s, K) ==
    IF s = <<>> THEN <<>>
    ELSE Retain(SubSeq(s, 1, Len(s) - 1), K) \o (IF Len(s) \in K THEN <<s[Len(s)]>> ELSE <<>>)

\* the paths remove_selected_from_disk removes for the selected tasks S
Removed(S) ==
    {files[i].name_on_disk : i \in S} \cup {tmp_path(files[i].name_on_disk) : i \in S}

\* menu_bar.rs "Remove selected from disk": for every selected task remove its
\* payload file and the file at tmp_path (a failure is shown and passed over),
\* and drop the task from the list
RemoveSelected ==
    /\ \E S \in (SUBSET Tasks) \ {{}} :
         /\ disk' = RemoveFiles(disk, Removed(S))
         /\ meta' = RemoveFiles(meta, Removed(S))
         /\ files' = Retain(files, Tasks \ S)
    /\ UNCHANGED <<restarts, namer, dl_dir, probe, toggle>>

\* the process ends, dropping every loop, and starts again: DownloadManager::default
Restart ==
    /\ restarts < MaxRestarts
    /\ restarts' = restarts + 1
    /\ files' = load_files
    /\ UNCHANGED <<disk, meta, namer, dl_dir, probe, toggle>>

\* ---------------------------------------------------------- specification

EmptyDir == [n \in {} |-> <<>>]

\* the sidecar record of a download of srv's resource under the name n
RecordOf(srv, n) == MetaData(FreshTask(UrlNew(srv), n))

\* One task as the process holds it after construction, with the speed limit L
\* the collaborator gave it: made by File2Dl::new in an empty directory, or
\* rebuilt at startup by load_files from the one record an earlier run left,
\* whose payload file has any length up to the resource's
InitTask(L) ==
    \/ /\ disk = EmptyDir
       /\ meta = EmptyDir
       /\ \E srv \in Servers :
            files = <<[FreshTask(UrlNew(srv), generate_name_on_disk(UrlNew(srv).filename, {}))
                         EXCEPT !.speed = L]>>
    \/ /\ \E srv \in Servers : \E k \in 0..srv.len :
            /\ meta = (SidecarName(BaseName) :> [RecordOf(srv, BaseName) EXCEPT !.speed = L])
            /\ disk = (BaseName :> Interval(1, k))
       /\ files = load_files

Init ==
    /\ restarts = 0
    /\ namer = <<>>
    /\ dl_dir = TRUE
    /\ probe = NoProbe
    /\ toggle = NoToggle
    /\ \E L \in 0..MaxSpeed : InitTask(L)

\* the life of the task: runs of its loop and the collaborator's stores into
\* running
Next ==
    \/ \E i \in Tasks : StartLoop(i)
    \/ \E i \in Tasks : Metadata(i)
    \/ \E i \in Tasks : Open(i)
    \/ \E i \in Tasks : Pull(i)
    \/ \E i \in Tasks : Sample(i)
    \/ \E i \in Tasks : PauseWake(i)
    \/ \E i \in Tasks : Write(i)
    \/ \E i \in Tasks : ThrottleWake(i)
    \/ \E i \in Tasks : Tick(i)
    \/ ResumeAll
    \/ PauseAll

Spec == Init /\ [][Next]_vars

\* ------------------------------------------------- speed limit set on the way

\* a fresh task without a speed limit
InitSpeed ==
    /\ restarts = 0
    /\ namer = <<>>
    /\ dl_dir = TRUE
    /\ probe = NoProbe
    /\ toggle = NoToggle
    /\ disk = EmptyDir
    /\ meta = EmptyDir
    /\ \E srv \in Servers :
         files = <<FreshTask(UrlNew(srv), generate_name_on_disk(UrlNew(srv).filename, {}))>>

\* the life of the task while the collaborator also stores speed limits
NextSpeed ==
    \/ Next
    \/ \E i \in Tasks : SetSpeed(i)

SpecSpeed == InitSpeed /\ [][NextSpeed]_vars

\* -------------------------------------------- rate-limit specification

\* the task with a speed limit L > 0 that stays as it is
InitRate ==
    /\ restarts = 0
    /\ namer = <<>>
    /\ dl_dir = TRUE
    /\ probe = NoProbe
    /\ toggle = NoToggle
    /\ \E L \in 1..MaxLimit : InitTask(L)

\* runs of the loop, paused and resumed
NextRate ==
    \/ \E i \in Tasks : StartLoop(i)
    \/ \E i \in Tasks : Metadata(i)
    \/ \E i \in Tasks : Open(i)
    \/ \E i \in Tasks : Pull(i)
    \/ \E i \in Tasks : Sample(i)
    \/ \E i \in Tasks : PauseWake(i)
    \/ \E i \in Tasks : Write(i)
    \/ \E i \in Tasks : ThrottleWake(i)
    \/ \E i \in Tasks : Tick(i)
    \/ ResumeAll
    \/ PauseAll

SpecRate == InitRate /\ [][NextRate]_vars

\* ----------------------------------------------------- scheduled transfers

\* a step of task i's run of single_thread_dl, once the request is answered
LoopMove(i) ==
    \/ Metadata(i)
    \/ Open(i)
    \/ Pull(i)
    \/ Sample(i)
    \/ PauseWake(i)
    \/ Write(i)
    \/ ThrottleWake(i)

\* a fresh task under any speed limit, unlimited included, that stays as it is
InitLive ==
    /\ restarts = 0
    /\ namer = <<>>
    /\ dl_dir = TRUE
    /\ probe = NoProbe
    /\ toggle = NoToggle
    /\ disk = EmptyDir
    /\ meta = EmptyDir
    /\ \E srv \in Servers : \E L \in 0..MaxLimit :
         files = <<[FreshTask(UrlNew(srv), generate_name_on_disk(UrlNew(srv).filename, {}))
                      EXCEPT !.speed = L]>>

\* single_thread_dl is an async fn driven by the multi-thread runtime that
\* DownloadManager::default builds: a run that can move does move, every await
\* of a file operation, of the stream or of a sleep resolves. Nothing obliges
\* the caller to start a run, the collaborator to store, or a second to pass
\* while a chunk is written.
SpecLive == InitLive /\ [][NextRate]_vars /\ WF_vars(\E i \in Tasks : LoopMove(i))

\* -------------------------------------------- toggle specification

\* a task made by File2Dl::new for a one-byte resource: the shortest transfer
\* whose completion store meets the callers
InitToggle ==
    /\ restarts = 0
    /\ namer = <<>>
    /\ dl_dir = TRUE
    /\ probe = NoProbe
    /\ toggle = NoToggle
    /\ disk = EmptyDir
    /\ meta = EmptyDir
    /\ \E srv \in Servers :
         /\ srv.len = 1 /\ srv.accept = "bytes"
         /\ files = <<FreshTask(UrlNew(srv), generate_name_on_disk(UrlNew(srv).filename, {}))>>

\* runs of the loop of a task while callers of toggle_status and the menu's
\* stores write running
NextToggle ==
    \/ \E i \in Tasks : StartLoop(i)
    \/ \E i \in Tasks : Metadata(i)
    \/ \E i \in Tasks : Open(i)
    \/ \E i \in Tasks : Pull(i)
    \/ \E i \in Tasks : Sample(i)
    \/ \E i \in Tasks : PauseWake(i)
    \/ \E i \in Tasks : Write(i)
    \/ \E i \in Tasks : Tick(i)
    \/ \E c \in Callers : \E i \in Tasks : ToggleLoad(c, i)
    \/ \E c \in Callers : ToggleStore(c)
    \/ ResumeAll
    \/ PauseAll

SpecToggle == InitToggle /\ [][NextToggle]_vars

\* -------------------------------------------- directory specification

\* the names a directory holds after two downloads of BaseName
DirNames == {BaseName, FormatName(file_stem(BaseName), 1, extension(BaseName))}

\* A directory as earlier runs of the program leave it: not there yet, or with a
\* sidecar record under some names, and for some of those the payload file, of any
\* length up to the resource's (a sidecar is written before its payload file is
\* created)
InitDir ==
    /\ files = <<>>
    /\ restarts = 0
    /\ namer = <<>>
    /\ probe = NoProbe
    /\ toggle = NoToggle
    /\ \E M \in SUBSET DirNames : \E srvOf \in [M -> Servers] :
         \E P \in SUBSET M : \E sz \in [P -> 0..MaxLen] :
            /\ dl_dir \in {d \in BOOLEAN : d \/ M = {}}
            /\ \A n \in P : sz[n] <= srvOf[n].len
            /\ meta = [k \in {SidecarName(n) : n \in M} |->
                         LET n == CHOOSE n \in M : SidecarName(n) = k
                         IN RecordOf(srvOf[n], n)]
            /\ disk = [n \in P |-> Interval(1, sz[n])]

\* the process starts over the directory; recovered downloads are removed
NextDir ==
    \/ Restart
    \/ RemoveSelected

SpecDir == InitDir /\ [][NextDir]_vars

\* downloads are added to the list over the directory, and removed
NextNew ==
    \/ NewTask
    \/ RemoveSelected

\* A directory before any download of this run: not there yet, or holding files
\* under some of the names (new reads which names are taken, never a file's
\* content: a file is empty or holds one byte)
InitNew ==
    /\ files = <<>>
    /\ restarts = 0
    /\ namer = <<>>
    /\ probe = NoProbe
    /\ toggle = NoToggle
    /\ meta = EmptyDir
    /\ \E P \in SUBSET DirNames : \E sz \in [P -> 0..1] :
         /\ dl_dir \in {d \in BOOLEAN : d \/ P = {}}
         /\ disk = [n \in P |-> Interval(1, sz[n])]

SpecNew == InitNew /\ [][NextNew]_vars

\* ------------------------------------------------ namer specification

NoExt == <<"f">>

\* the names asked for: with an extension, without one, and the empty name
Desired == {BaseName, NoExt, <<>>}

\* the names a directory may hold before the first call
NamePool == DirNames \cup {NoExt, FormatName(file_stem(BaseName), 2, extension(BaseName))}

InitNamer ==
    /\ files = <<>>
    /\ meta = EmptyDir
    /\ restarts = 0
    /\ namer = <<>>
    /\ dl_dir = TRUE
    /\ probe = NoProbe
    /\ toggle = NoToggle
    /\ \E D \in SUBSET NamePool : disk = [n \in D |-> <<>>]

\* one call of generate_name_on_disk, and the creation of the file it names
NamerCall ==
    /\ Len(namer) < MaxNames
    /\ \E init \in Desired :
         LET result == generate_name_on_disk(init, FileNames)
         IN /\ namer' = Append(namer, [init |-> init, dir |-> FileNames, result |-> result])
            /\ disk' = Append2File(disk, result, <<>>)
    /\ UNCHANGED <<files, meta, restarts, dl_dir, probe, toggle>>

NextNamer == NamerCall

SpecNamer == InitNamer /\ [][NextNamer]_vars

\* ------------------------------------------------------------------ claims

\* the payload file the record a recovered task was rebuilt from names
f_stored(i) == meta[files[i].stored].name_on_disk

\* a step in which task i's loop moved
LoopStep(i) == files'[i].pc # files[i].pc

\* C1: a fresh task's first run whose stream delivered the whole resource without
\* a read or write failure ends with bytes_on_disk = content_length, complete,
\* not running and bytes_per_sec = 0.
C1_FreshRunEndsWithAllBytes ==
    [][\A i \in Tasks :
         (/\ LoopStep(i)
          /\ files'[i].pc = "done"
          /\ ~files[i].recovered /\ files[i].runs = 1 /\ ~files[i].failed)
         => (/\ files'[i].size_on_disk = files[i].url.content_length
             /\ files'[i].complete
             /\ ~files'[i].running
             /\ files'[i].bytes_per_sec = 0)]_vars

\* C2: for a range-supported task with content_length > 0, complete holds only
\* after a run of the loop exhausted the stream (or the task was recovered
\* complete), and then bytes_on_disk = content_length.
C2_CompleteMeansAllBytes ==
    \A i \in Tasks :
        (files[i].url.range_support /\ files[i].url.content_length > 0 /\ files[i].complete)
        => (/\ files[i].recovered \/ files[i].runs > 0
            /\ files[i].size_on_disk = files[i].url.content_length)

\* C3: no step of a task's loop (a start, a pause, a failure, a restart of the
\* loop) decreases bytes_on_disk, and for a range-supported task with
\* content_length > 0 none takes it beyond content_length.
C3_BytesMonotoneAndBounded ==
    [][\A i \in Tasks :
         /\ files'[i].size_on_disk >= files[i].size_on_disk
         /\ (/\ files[i].url.range_support /\ files[i].url.content_length > 0
             /\ files[i].size_on_disk <= files[i].url.content_length)
            => files'[i].size_on_disk <= files[i].url.content_length]_vars

\* C3's case: a range-supported task whose first run failed part-way has been
\* started again and has reached content_length
C3_Witness ==
    \E i \in Tasks :
        /\ files[i].url.range_support /\ files[i].runs = 2 /\ files[i].prev = "err"
        /\ Len(files[i].base) > 0
        /\ Active(i) /\ files[i].size_on_disk = files[i].url.content_length

\* C4: an iteration that samples running as false drops the chunk it pulled:
\* nothing is written, bytes_on_disk is unchanged, bytes_per_sec becomes 0, the
\* loop sleeps and then pulls the next chunk.
C4_PausedIterationDiscards ==
    [][\A i \in Tasks :
         /\ (LoopStep(i) /\ files[i].pc = "sample" /\ ~files[i].running)
            => (/\ disk' = disk
                /\ files'[i].size_on_disk = files[i].size_on_disk
                /\ files'[i].bytes_per_sec = 0
                /\ files'[i].stream = files[i].stream
                /\ files'[i].pc = "paused")
         /\ (LoopStep(i) /\ files[i].pc = "paused")
            => (/\ disk' = disk
                /\ files'[i].size_on_disk = files[i].size_on_disk
                /\ files'[i].bytes_per_sec = 0
                /\ files'[i].pc = "pull")]_vars

\* C4's case: a paused loop has dropped chunks after writing some: the stream is
\* further along than the file
C4_Witness ==
    \E i \in Tasks :
        /\ files[i].pc = "paused" /\ ~files[i].running /\ ~files[i].failed
        /\ files[i].runs = 1 /\ files[i].url.range_support
        /\ files[i].size_on_disk > 0
        /\ files[i].size_on_disk + Len(files[i].stream) < files[i].url.content_length

\* C5: a chunk-read failure or a write failure makes the loop return the error,
\* whatever running is; complete is not set and bytes_on_disk is unchanged.
C5_FailureAbortsLoop ==
    [][\A i \in Tasks :
         /\ (LoopStep(i) /\ files[i].pc = "sample" /\ ~files[i].chunk.ok)
            => (/\ files'[i].pc = "err"
                /\ files'[i].complete = files[i].complete
                /\ files'[i].size_on_disk = files[i].size_on_disk)
         /\ (LoopStep(i) /\ files[i].pc = "write" /\ files'[i].pc = "err")
            => (/\ files'[i].complete = files[i].complete
                /\ files'[i].size_on_disk = files[i].size_on_disk)]_vars

\* C6: a range-supported task whose loop failed after b < content_length bytes
\* and is started again, with no further failure, ends with bytes_on_disk =
\* content_length, complete, and the file being its b bytes followed by the
\* remote bytes from offset b on.
C6_RestartCompletesTheFile ==
    [][\A i \in Tasks :
         (/\ LoopStep(i)
          /\ files'[i].pc = "done"
          /\ files[i].url.range_support /\ files[i].prev = "err" /\ ~files[i].failed
          /\ Len(files[i].base) < files[i].url.content_length)
         => (/\ files'[i].size_on_disk = files[i].url.content_length
             /\ files'[i].complete
             /\ disk'[files[i].name_on_disk] =
                  files[i].base \o Interval(Len(files[i].base) + 1, files[i].url.content_length))]_vars

\* C7: every task File2Dl::from returns has bytes_on_disk = the size of the file
\* its record names, complete = (that size = the stored content_length), running
\* false and bytes_per_sec 0.
C7_RecoveredSizeAndComplete ==
    [][restarts' # restarts =>
         \A k \in 1..Len(files') :
            LET f == files'[k] IN
            /\ f.recovered /\ f.stored \in DOMAIN meta
            /\ meta[f.stored].name_on_disk \in FileNames
            /\ f.size_on_disk = FileSize(meta[f.stored].name_on_disk)
            /\ f.complete = (FileSize(meta[f.stored].name_on_disk) = meta[f.stored].content_length)
            /\ ~f.running
            /\ f.bytes_per_sec = 0]_vars

\* C7's case: one recovery rebuilt a task from a record whose file is partial and
\* another from a record whose file is whole
C7_Witness ==
    /\ restarts = 1
    /\ \E i \in Tasks :
          /\ files[i].recovered
          /\ files[i].size_on_disk > 0
          /\ files[i].size_on_disk < files[i].url.content_length
          /\ ~files[i].complete
    /\ \E j \in Tasks :
          /\ files[j].recovered
          /\ files[j].size_on_disk = files[j].url.content_length
          /\ files[j].complete

\* C8: a task rebuilt from a record without range support has a name other than
\* the stored one, which names no file of the directory when the task is
\* returned, and no step of its loop changes the stored file; with range support
\* the stored name is kept.
C8_NonResumableGetsNewName ==
    /\ [](\A i \in Tasks :
            files[i].recovered =>
               IF meta[files[i].stored].range_support
               THEN files[i].name_on_disk = f_stored(i)
               ELSE /\ files[i].name_on_disk # f_stored(i)
                    /\ files[i].runs = 0 => files[i].name_on_disk \notin FileNames)
    /\ [][\A i \in Tasks :
            (LoopStep(i) /\ files[i].recovered /\ ~files[i].url.range_support)
            => /\ f_stored(i) \in DOMAIN disk'
               /\ disk'[f_stored(i)] = disk[f_stored(i)]]_vars

\* C8's case: a task rebuilt without range support has written to its new file
\* while the partial file it was rebuilt from is still there
C8_Witness ==
    \E i \in Tasks :
        /\ files[i].recovered /\ ~files[i].url.range_support
        /\ files[i].name_on_disk \in FileNames
        /\ FileSize(files[i].name_on_disk) > 0
        /\ FileSize(f_stored(i)) > 0
        /\ FileSize(f_stored(i)) < files[i].url.content_length

\* C9: in a recovery, an entry that cannot be rebuilt fails alone: every entry
\* that can be rebuilt is among the tasks returned.
C9_OtherEntriesStillRecovered ==
    [][restarts' # restarts =>
         \A e \in get_metadata_files :
            EntryOk(e) => \E k \in 1..Len(files') : files'[k].stored = e]_vars

\* the suffix n of a call's result, 0 when the result is not <stem>_<n>.<ext>
Suffix(c) ==
    LET S == {n \in 1..(Cardinality(c.dir) + 1) :
                c.result = FormatName(file_stem(c.init), n, extension(c.init))}
    IN IF S = {} THEN 0 ELSE CHOOSE n \in S : TRUE

\* C10: generate_name_on_disk returns a name that is not in the directory: the
\* desired name when it is free, else <stem>_<n>.<ext> for the least n >= 1 that
\* is free; successive collisions on one base name get increasing suffixes, 1, 2,
\* ... when no suffixed name was there at first.
C10_NamerReturnsLeastFreeName ==
    \A k \in 1..Len(namer) :
        LET c == namer[k] IN
        /\ ~Exists(c.result, c.dir)
        /\ ~Exists(c.init, c.dir) => c.result = c.init
        /\ Exists(c.init, c.dir) =>
              /\ Suffix(c) >= 1
              /\ \A m \in 1..(Suffix(c) - 1) :
                    FormatName(file_stem(c.init), m, extension(c.init)) \in c.dir
        /\ \A j \in 1..(k - 1) :
              (namer[j].init = c.init /\ Exists(c.init, namer[j].dir))
              => /\ Suffix(c) > Suffix(namer[j])
                 /\ c.result # namer[j].result
        /\ (/\ \A j \in 1..k : namer[j].init = c.init
            /\ Exists(c.init, namer[1].dir)
            /\ \A m \in 1..k : FormatName(file_stem(c.init), m, extension(c.init)) \notin namer[1].dir)
           => Suffix(c) = k

\* C10's case: three successive collisions on the name with an extension
C10_Witness ==
    /\ Len(namer) = 3
    /\ \A k \in 1..3 : namer[k].init = BaseName /\ Suffix(namer[k]) = k

\* C11: no two tasks of the list hold the same name_on_disk, whatever downloads
\* were added and whether or not their transfers have started.
C11_NamesAreUnique ==
    \A i, j \in Tasks : files[i].name_on_disk = files[j].name_on_disk => i = j

\* C12: the transfer request of a run of a task with range support carries a
\* Range header whose start is bytes_on_disk as the run found it and whose end is
\* content_length (and is answered with the resource from that offset on); for a
\* task without range support it carries no Range header.
C12_RangeStartsAtBytesOnDisk ==
    [][\A i \in Tasks :
         (LoopStep(i) /\ files'[i].pc = "meta")
         => /\ files'[i].req.sent
            /\ files'[i].req.range = files[i].url.range_support
            /\ files[i].url.range_support
               => /\ files'[i].req.start = files[i].size_on_disk
                  /\ files'[i].req.end = files[i].url.content_length
                  /\ files'[i].stream = Interval(files[i].size_on_disk + 1, files[i].url.content_length)]_vars

\* C12's case: a run resumes a task with range support that has bytes on disk,
\* and its request starts after them
C12_Witness ==
    \E i \in Tasks :
        /\ files[i].pc = "meta" /\ files[i].url.range_support
        /\ files[i].size_on_disk > 0
        /\ files[i].size_on_disk < files[i].url.content_length
        /\ files[i].req.range /\ files[i].req.start = files[i].size_on_disk

\* the bytes of task i's payload file
Written(d, i) == IF files[i].name_on_disk \in DOMAIN d THEN Len(d[files[i].name_on_disk]) ELSE 0

\* C13: with a speed limit L > 0, the bytes written in the current window stay
\* below L while the loop goes on, a write that takes them to L or beyond before
\* the window has elapsed puts the loop to sleep with at most L - 1 + one chunk
\* written, and the sleeping loop writes nothing until the window is over and
\* a new one starts empty.
C13_WindowWritesAtMostTheLimit ==
    /\ [](\A i \in Tasks :
            IF files[i].pc = "throttle"
            THEN /\ files[i].accumulated_bytes >= files[i].speed
                 /\ files[i].accumulated_bytes <= files[i].speed - 1 + MaxChunk
            ELSE files[i].accumulated_bytes < files[i].speed)
    /\ [][\A i \in Tasks :
            /\ (LoopStep(i) /\ files[i].pc = "write" /\ files'[i].pc # "err")
               => /\ Written(disk', i) = Written(disk, i) + Len(files[i].chunk.bytes)
                  /\ (/\ files[i].elapsed < 1
                      /\ files[i].accumulated_bytes + Len(files[i].chunk.bytes) >= files[i].speed)
                     => /\ files'[i].pc = "throttle"
                        /\ files'[i].accumulated_bytes
                              = files[i].accumulated_bytes + Len(files[i].chunk.bytes)
            /\ (LoopStep(i) /\ files[i].pc # "write") => Written(disk', i) = Written(disk, i)
            /\ (LoopStep(i) /\ files[i].pc = "throttle")
               => /\ files'[i].pc = "pull"
                  /\ files'[i].accumulated_bytes = 0
                  /\ files'[i].elapsed = 0]_vars

\* C13's case: the loop sleeps with the limit reached in the window it wrote in,
\* while the stream has more to give
C13_Witness ==
    \E i \in Tasks :
        /\ files[i].pc = "throttle"
        /\ files[i].accumulated_bytes >= files[i].speed
        /\ files[i].size_on_disk > 0
        /\ files[i].stream # <<>>

\* C14: a call of File2Dl::new whose link is invalid or whose probe request
\* fails changes nothing: the directory is not created, no file is written, no
\* task is added.
C14_FailedNewChangesNothing ==
    [][(probe' # probe /\ ~probe'.ok)
       => /\ dl_dir' = dl_dir
          /\ disk' = disk
          /\ meta' = meta
          /\ files' = files]_vars

\* C14's case: the probe request of a call failed where there is no download
\* directory, and there is still none, and no task
C14_Witness ==
    /\ probe.called /\ ~probe.ok /\ probe.sent = <<"head">>
    /\ ~dl_dir
    /\ files = <<>>

\* C18: a call of Url::new that returns a Url has range_support = (the value is
\* bytes) when the accept-ranges header is present, and then sends no ranged GET;
\* it sends the ranged GET only when the header is absent, and then
\* range_support = (the GET was answered with a body of length 1).
C18_ManualProbeOnlyWithoutHeader ==
    (probe.called /\ probe.ok)
    => /\ probe.accept # "absent"
          => /\ probe.range_support = (probe.accept = "bytes")
             /\ \A k \in 1..Len(probe.sent) : probe.sent[k] # "manual"
       /\ (\E k \in 1..Len(probe.sent) : probe.sent[k] = "manual") => probe.accept = "absent"
       /\ probe.accept = "absent"
          => /\ \E k \in 1..Len(probe.sent) : probe.sent[k] = "manual"
             /\ probe.range_support = (probe.manual_ok /\ probe.manual_len = 1)

\* the tasks a recovery over the directory returns
Recoverable == {load_files[k].stored : k \in 1..Len(load_files)}

\* C15: after "Remove selected from disk" of a task that has a sidecar (a
\* recovered one), the task's payload file is gone, the recovery scan no longer
\* finds its sidecar, and a recovery then returns the task of every sidecar of a
\* task that was not removed.
C15_RemovedFromDiskIsGone ==
    [][(Len(files') < Len(files) /\ restarts' = restarts)
       => \A i \in Tasks :
            (/\ files[i].recovered
             /\ \A j \in 1..Len(files') : files'[j] # files[i])
            => /\ files[i].name_on_disk \notin FileNames'
               /\ files[i].stored \notin get_metadata_files'
               /\ \A j \in 1..Len(files') :
                     files'[j].recovered => files'[j].stored \in Recoverable']_vars

\* the sidecar of task i
Sidecar(i) == SidecarName(files[i].name_on_disk)

\* C16: a run of the loop writes the task's metadata record once, in the step
\* after the transfer request was answered and before the output file is opened
\* (the payload file is as the run found it); no other step of the loop and no
\* store of the collaborator changes a record.
C16_MetadataPersistedOnceBeforeOpen ==
    [][/\ \A i \in Tasks :
            /\ (LoopStep(i) /\ files[i].pc = "meta" /\ files'[i].pc = "open")
               => /\ files[i].req.sent
                  /\ Sidecar(i) \in DOMAIN meta'
                  /\ meta'[Sidecar(i)] = MetaData(files[i])
                  /\ disk' = disk
            /\ (LoopStep(i) /\ files[i].pc = "open" /\ files'[i].pc = "pull")
               => Sidecar(i) \in DOMAIN meta /\ meta' = meta
            /\ (LoopStep(i) /\ files'[i].pc = "meta") => files[i].pc \in {"idle", "done", "err"}
       /\ meta' # meta => \E i \in Tasks : files[i].pc = "meta" /\ files'[i].pc = "open"]_vars

\* C16's case: the loop is streaming with bytes written and a speed limit stored
\* after the record was persisted: the record still has the limit of the start
C16_Witness ==
    \E i \in Tasks :
        /\ files[i].pc \in {"pull", "sample", "write"}
        /\ files[i].size_on_disk > 0
        /\ Sidecar(i) \in DOMAIN meta
        /\ meta[Sidecar(i)].speed # files[i].speed

\* line 88: the throughput-window reset fires in the iteration that writes f's chunk
WindowFires(f) == Count(f).elapsed >= 1

\* line 95: the rate-limit reset fires in the iteration that writes f's chunk
LimitFires(f) ==
    Window(Count(f)).speed > 0 /\ Window(Count(f)).accumulated_bytes >= Window(Count(f)).speed

\* a step in which task i's loop wrote its chunk
Wrote(i) == LoopStep(i) /\ files[i].pc = "write" /\ files'[i].pc # "err"

\* C17 as stated: an iteration whose window has elapsed and whose bytes have
\* reached the limit fires the throughput-window reset and then the rate-limit
\* reset.
C17_BothResetsFire ==
    [][\A i \in Tasks :
         (/\ Wrote(i)
          /\ files[i].elapsed >= 1
          /\ files[i].speed > 0
          /\ files[i].accumulated_bytes + Len(files[i].chunk.bytes) >= files[i].speed)
         => WindowFires(files[i]) /\ LimitFires(files[i])]_vars

\* C17, amended: the throughput-window reset is evaluated before the rate-limit
\* check, which sees the accumulator it zeroed: an iteration in which the window
\* reset fires publishes the bytes of the window with the chunk just written and
\* goes on to the next pull, and the rate-limit reset does not fire in it; the
\* rate limit acts only in an iteration whose window has not elapsed.
C17_WindowResetPreemptsLimit ==
    [][\A i \in Tasks :
         Wrote(i) =>
           /\ ~(WindowFires(files[i]) /\ LimitFires(files[i]))
           /\ WindowFires(files[i])
              => /\ files'[i].bytes_per_sec = files[i].accumulated_bytes + Len(files[i].chunk.bytes)
                 /\ files'[i].accumulated_bytes = 0
                 /\ files'[i].elapsed = 0
                 /\ files'[i].pc = "pull"
           /\ files'[i].pc = "throttle"
              => /\ ~WindowFires(files[i])
                 /\ LimitFires(files[i])
                 /\ files'[i].bytes_per_sec = files[i].bytes_per_sec]_vars

\* C17's case: an iteration is about to write the chunk that takes the bytes of
\* the window to the limit, after the window's second has passed
C17_Witness ==
    \E i \in Tasks :
        /\ files[i].pc = "write"
        /\ files[i].elapsed >= 1
        /\ files[i].speed > 0
        /\ files[i].accumulated_bytes + Len(files[i].chunk.bytes) >= files[i].speed

\* a step in which caller c's call of toggle_status stores
Stores(c) == toggle[c].loading /\ ~toggle'[c].loading

\* running of the task caller c's call is on
Running(fs, c) == fs[toggle[c].task].running

\* The values running can have after caller c's call and the one write that came
\* between its load and its store, taken one after the other in either order: a
\* constant store leaves the constant or its negation, another call of
\* toggle_status that loaded the same value leaves that value
Sequential(c) == IF toggle[c].hit = "store" THEN BOOLEAN ELSE {toggle[c].status}

\* C19 as stated: whenever another writer's store (a second call of
\* toggle_status, Pause all or Resume all, the loop's completion store) came
\* between the load and the store of a call, running ends with a value that no
\* order of the two operations one after the other produces.
C19_InterleavedWriteIsNeverSequential ==
    [][\A c \in Callers :
         (Stores(c) /\ toggle[c].hit \in {"store", "toggle"})
         => Running(files', c) \notin Sequential(c)]_vars

\* C19, amended: toggle_status stores the negation of the value it loaded, not
\* of the value running has at the store. With nothing stored in between the
\* call negates running. With the store of a second call in between that loaded
\* the same value, running ends negated once, which neither order of the two
\* calls produces. With a constant store in between, that store is overwritten
\* and running ends with the negation of the loaded value, which is what one of
\* the two orders produces.
C19_ToggleStoresNegatedLoad ==
    [][\A c \in Callers :
         Stores(c) =>
           /\ Running(files', c) = ~toggle[c].status
           /\ toggle[c].hit = "none"
              => Running(files, c) = toggle[c].status /\ Running(files', c) = ~Running(files, c)
           /\ toggle[c].hit = "toggle"
              => Running(files, c) = ~toggle[c].status /\ Running(files', c) \notin Sequential(c)
           /\ toggle[c].hit = "store" => Running(files', c) \in Sequential(c)]_vars

\* C19's case: two calls loaded running = true while the loop was streaming, and
\* one of them has stored: the other is about to store false again
C19_Witness ==
    \E c \in Callers :
        /\ toggle[c].loading /\ toggle[c].hit = "toggle" /\ toggle[c].status
        /\ ~files[toggle[c].task].running
        /\ files[toggle[c].task].pc \in {"pull", "sample", "write", "paused"}

\* C20: the loop looks at running once in an iteration, after the item is pulled
\* and before it is written: a chunk is written only in an iteration that found
\* running true at that look, every iteration that finds it false writes
\* nothing, and so after running is set to false only the chunk of the iteration
\* that had already looked is written until running is true again.
C20_RunningSampledOncePerIteration ==
    [][\A i \in Tasks :
         /\ (LoopStep(i) /\ files'[i].pc = "sample") => files[i].pc = "pull"
         /\ (LoopStep(i) /\ files'[i].pc = "write")
            => files[i].pc = "sample" /\ files[i].running
         /\ (LoopStep(i) /\ files[i].pc = "sample" /\ ~files[i].running)
            => files'[i].pc = "paused" /\ disk' = disk
         /\ Written(disk', i) # Written(disk, i)
            => /\ files[i].pc = "write"
               /\ files'[i].pc \in {"pull", "throttle"}
               /\ Written(disk', i) = Written(disk, i) + Len(files[i].chunk.bytes)]_vars

\* C20's case: running was set to false after the iteration looked at it, and
\* the chunk of that iteration is about to be written, with more to come
C20_Witness ==
    \E i \in Tasks :
        /\ files[i].pc = "write" /\ ~files[i].running
        /\ files[i].chunk.bytes # <<>>
        /\ files[i].stream # <<>>

\* C21: at construction and at the end of every iteration of the loop, a task's
\* bytes_on_disk is the size of the file of the directory under its
\* name_on_disk, 0 when there is no such file. (The loop's write and its count
\* are one step, so every state is at a construction or between iterations.)
C21_BytesOnDiskIsFileSize ==
    \A i \in Tasks : files[i].size_on_disk = Written(disk, i)

\* a step in which task i's run of single_thread_dl returned, with Ok or an error
Returned(i) == LoopStep(i) /\ files'[i].pc \in {"done", "err"}

\* C22: when a run of single_thread_dl returns, with Ok after the end of the
\* stream or with an error of the request, the metadata write, the file open, a
\* chunk read or a write, the task's running flag is false and its bytes_per_sec
\* is 0 (in the state the return leaves, before any external writer acts).
C22_ReturnLeavesIdleFlags ==
    [][\A i \in Tasks :
         Returned(i) => ~files'[i].running /\ files'[i].bytes_per_sec = 0]_vars

\* Task i is about to write a chunk in a run that has written before and has
\* been going for over a second: a second has passed since the window began, or
\* the window was reset since the earlier write (the accumulator is zero), which
\* happens only when a second has passed or a throttle sleep has filled it.
WritingOverASecond(i) ==
    /\ files[i].pc = "write"
    /\ Written(disk, i) > Len(files[i].base)
    /\ files[i].elapsed >= 1 \/ files[i].accumulated_bytes = 0

\* C23: a transfer that goes on writing chunks for longer than a second
\* eventually publishes a window's bytes as bytes_per_sec (a value above 0,
\* since a window is published after a write), unless it is paused or ended by
\* an error; under a speed limit that every window hits as well.
C23_ThroughputEventuallyPublished ==
    \A i \in 1..MaxFiles :
        [](i \in Tasks /\ WritingOverASecond(i)
            => <>(i \in Tasks /\ (files[i].bytes_per_sec > 0 \/ files[i].pc \in {"paused", "err"})))

\* C24: a run of single_thread_dl whose request was answered (the body is
\* finite) eventually returns, with Ok and complete = true or with an error,
\* whatever the collaborator stores into running and under every speed limit:
\* every iteration takes an item off the stream, and the pause sleep and the
\* throttle sleep end.
C24_RunEventuallyReturns ==
    \A i \in 1..MaxFiles :
        [](i \in Tasks /\ Active(i)
            => <>(i \in Tasks /\ (files[i].pc = "err" \/ (files[i].pc = "done" /\ files[i].complete))))

\* C24's case: a run under a speed limit has returned Ok with chunks missing from
\* the file: it was paused on the way, dropped what it pulled, and still came to
\* the end of the stream
C24_Witness ==
    \E i \in Tasks :
        /\ files[i].pc = "done" /\ files[i].complete
        /\ files[i].speed > 0
        /\ files[i].runs = 1 /\ ~files[i].recovered
        /\ 0 < Written(disk, i) /\ Written(disk, i) < files[i].url.content_length

====
